---- MODULE Spec2Model ----
(***************************************************************************)
(* A model of the ollama-ctl REST client (src/src/ollama_ctl/client.py,    *)
(* models.py): one OllamaClient bound to a host profile, its unary         *)
(* transport _make_request, its streaming transport _stream_request, the   *)
(* pydantic decoding of responses and the nine API operations.             *)
(*                                                                         *)
(* The server and the network are the environment: every call draws what   *)
(* the transport meets (a network failure, or a status and a body) from a  *)
(* small set of concrete HTTP outcomes.                                    *)
(***************************************************************************)
EXTENDS Integers, Sequences, FiniteSets, TLC

VARIABLES client, call, gen, environ, files, ctx, chat_messages, response_text, seen

\* What resolving the configuration works on: the environment variables,
\* the configuration files, and the click context of the command line.
cfgVars == <<environ, files, ctx>>

\* The interactive chat command: its history (the list `messages` of
\* chat()), the text of the answer it is receiving, and how many chunks of
\* the current stream its loop body has handled.
chatVars == <<chat_messages, response_text, seen>>

vars == <<client, call, gen, environ, files, ctx, chat_messages, response_text, seen>>

----------------------------------------------------------------------------
(* Bounds of the model.                                                    *)

\* The longest stream body (in lines) the server sends.
MaxLines == 3

\* The longest answer (in lines) the server streams to the chat command,
\* and the most turns a chat session has.
MaxChatLines == 2

MaxTurns == 2

----------------------------------------------------------------------------
(* Python / JSON values, tagged by kind so that values of different kinds  *)
(* can sit in one collection.                                              *)

JNull == [j |-> "null"]

JStr(s) == [j |-> "str", s |-> s]

JNum(n) == [j |-> "num", n |-> n]

JBool(b) == [j |-> "bool", b |-> b]

JList(xs) == [j |-> "list", items |-> xs]

JObj(f) == [j |-> "obj", f |-> f]

EmptyFields == [n \in {} |-> JNull]

\* s contains sub as a contiguous substring (Python's `sub in s`).
Contains(s, sub) ==
    \E i \in 1..(Len(s) - Len(sub) + 1) : SubSeq(s, i, i + Len(sub) - 1) = sub

----------------------------------------------------------------------------
(* The texts the server sends: unary bodies and stream lines.              *)

TxtEmpty == ""

TxtPlain == "Ollama is running"

TxtErrNotFound == "{\"error\":\"model not found\"}"

TxtEmptyObj == "{}"

TxtJsonStr == "\"internal error\""

TxtNum == "42"

TxtModels == "{\"models\":[{\"name\":\"llama2\",\"size\":3826,\"modified_at\":\"2024-01-01T00:00:00Z\",\"digest\":\"abc123\"}]}"

\* /api/tags payloads whose entry carries its name under "model" only, under
\* "model" with an empty "name", and under both fields.
TxtModelsModelOnly == "{\"models\":[{\"model\":\"llama2\",\"size\":3826,\"modified_at\":\"2024-01-01T00:00:00Z\",\"digest\":\"abc123\"}]}"

TxtModelsNameEmpty == "{\"models\":[{\"name\":\"\",\"model\":\"llama2\",\"size\":3826,\"modified_at\":\"2024-01-01T00:00:00Z\",\"digest\":\"abc123\"}]}"

TxtModelsBoth == "{\"models\":[{\"name\":\"llama2\",\"model\":\"llama2:7b\",\"size\":3826,\"modified_at\":\"2024-01-01T00:00:00Z\",\"digest\":\"abc123\"}]}"

TxtGen == "{\"model\":\"llama2\",\"created_at\":\"t2\",\"response\":\"\",\"done\":true}"

TxtChat == "{\"model\":\"llama2\",\"created_at\":\"t1\",\"message\":{\"role\":\"assistant\",\"content\":\"Hi\"},\"done\":false}"

TxtEmb == "{\"embedding\":[1,2]}"

TxtShow == "{\"modelfile\":\"FROM llama2\"}"

TxtShowBad == "{\"modelfile\":42}"

TxtStatus == "{\"status\":\"success\"}"

LineBlank == " "

LineBad == "not json"

LineGen == "{\"model\":\"llama2\",\"created_at\":\"t1\",\"response\":\"Hel\",\"done\":false}"

LinePartial == "{\"response\":\"lo\",\"done\":false}"

LinePartialHel == "{\"response\":\"Hel\",\"done\":false}"

LinePartialDone == "{\"response\":\"\",\"done\":true}"

\* The unary answer to /api/generate whose response is text, and the text
\* between its fixed parts.
GenerateBodyPrefix == "{\"model\":\"llama2\",\"created_at\":\"t2\",\"response\":\""

GenerateBodySuffix == "\",\"done\":true}"

GenerateBody(text) == GenerateBodyPrefix \o text \o GenerateBodySuffix

\* The unary answer to /api/chat whose message content is text.
ChatBodyPrefix == "{\"model\":\"llama2\",\"created_at\":\"t2\",\"message\":{\"role\":\"assistant\",\"content\":\""

ChatBodySuffix == "\"},\"done\":true}"

ChatBody(text) == ChatBodyPrefix \o text \o ChatBodySuffix

\* text is prefix, some characters, suffix; and those characters.
Encloses(text, prefix, suffix) ==
    /\ Len(text) >= Len(prefix) + Len(suffix)
    /\ SubSeq(text, 1, Len(prefix)) = prefix
    /\ SubSeq(text, Len(text) - Len(suffix) + 1, Len(text)) = suffix

Enclosed(text, prefix, suffix) == SubSeq(text, Len(prefix) + 1, Len(text) - Len(suffix))

\* Python's str.strip() on the texts above: only the blank line has
\* surrounding whitespace.
Strip(text) == IF text = LineBlank THEN "" ELSE text

\* The message of the json.JSONDecodeError json.loads raises on a text.
JSONDecodeErrorText == "Expecting value: line 1 column 1 (char 0)"

ParseOk(v) == [ok |-> TRUE, val |-> v]

ParseFail == [ok |-> FALSE, val |-> JNull]

\* json.loads / Response.json() on the texts above: the value of a JSON
\* document, a JSONDecodeError for anything else (empty, blank or plain text).
JsonLoads(text) ==
    CASE text = TxtErrNotFound -> ParseOk(JObj([error |-> JStr("model not found")]))
      [] text = TxtEmptyObj -> ParseOk(JObj(EmptyFields))
      [] text = TxtJsonStr -> ParseOk(JStr("internal error"))
      [] text = TxtNum -> ParseOk(JNum(42))
      [] text = TxtModels ->
            ParseOk(JObj([models |-> JList(<<JObj([name |-> JStr("llama2"),
                                                   size |-> JNum(3826),
                                                   modified_at |-> JStr("2024-01-01T00:00:00Z"),
                                                   digest |-> JStr("abc123")])>>)]))
      [] text = TxtModelsModelOnly ->
            ParseOk(JObj([models |-> JList(<<JObj([model |-> JStr("llama2"),
                                                   size |-> JNum(3826),
                                                   modified_at |-> JStr("2024-01-01T00:00:00Z"),
                                                   digest |-> JStr("abc123")])>>)]))
      [] text = TxtModelsNameEmpty ->
            ParseOk(JObj([models |-> JList(<<JObj([name |-> JStr(""),
                                                   model |-> JStr("llama2"),
                                                   size |-> JNum(3826),
                                                   modified_at |-> JStr("2024-01-01T00:00:00Z"),
                                                   digest |-> JStr("abc123")])>>)]))
      [] text = TxtModelsBoth ->
            ParseOk(JObj([models |-> JList(<<JObj([name |-> JStr("llama2"),
                                                   model |-> JStr("llama2:7b"),
                                                   size |-> JNum(3826),
                                                   modified_at |-> JStr("2024-01-01T00:00:00Z"),
                                                   digest |-> JStr("abc123")])>>)]))
      [] text = TxtGen ->
            ParseOk(JObj([model |-> JStr("llama2"), created_at |-> JStr("t2"),
                          response |-> JStr(""), done |-> JBool(TRUE)]))
      [] text = LineGen ->
            ParseOk(JObj([model |-> JStr("llama2"), created_at |-> JStr("t1"),
                          response |-> JStr("Hel"), done |-> JBool(FALSE)]))
      [] text = LinePartial ->
            ParseOk(JObj([response |-> JStr("lo"), done |-> JBool(FALSE)]))
      [] text = LinePartialHel ->
            ParseOk(JObj([response |-> JStr("Hel"), done |-> JBool(FALSE)]))
      [] text = LinePartialDone ->
            ParseOk(JObj([response |-> JStr(""), done |-> JBool(TRUE)]))
      [] text = TxtChat ->
            ParseOk(JObj([model |-> JStr("llama2"), created_at |-> JStr("t1"),
                          message |-> JObj([role |-> JStr("assistant"),
                                            content |-> JStr("Hi")]),
                          done |-> JBool(FALSE)]))
      [] text = TxtEmb -> ParseOk(JObj([embedding |-> JList(<<JNum(1), JNum(2)>>)]))
      [] text = TxtShow -> ParseOk(JObj([modelfile |-> JStr("FROM llama2")]))
      [] text = TxtShowBad -> ParseOk(JObj([modelfile |-> JNum(42)]))
      [] text = TxtStatus -> ParseOk(JObj([status |-> JStr("success")]))
      [] Encloses(text, GenerateBodyPrefix, GenerateBodySuffix) ->
            ParseOk(JObj([model |-> JStr("llama2"), created_at |-> JStr("t2"),
                          response |-> JStr(Enclosed(text, GenerateBodyPrefix,
                                                     GenerateBodySuffix)),
                          done |-> JBool(TRUE)]))
      [] Encloses(text, ChatBodyPrefix, ChatBodySuffix) ->
            ParseOk(JObj([model |-> JStr("llama2"), created_at |-> JStr("t2"),
                          message |-> JObj([role |-> JStr("assistant"),
                                            content |-> JStr(Enclosed(text, ChatBodyPrefix,
                                                                      ChatBodySuffix))]),
                          done |-> JBool(TRUE)]))
      [] OTHER -> ParseFail

----------------------------------------------------------------------------
(* What a call produces: a returned value, a raised exception, one element *)
(* of a generator (yield) or the end of a generator (stop).                *)

NoResult == [kind |-> "none", val |-> JNull, exc |-> "", msg |-> JNull, status |-> 0]

Return(v) == [kind |-> "return", val |-> v, exc |-> "", msg |-> JNull, status |-> 0]

Yield(v) == [kind |-> "yield", val |-> v, exc |-> "", msg |-> JNull, status |-> 0]

Stop == [kind |-> "stop", val |-> JNull, exc |-> "", msg |-> JNull, status |-> 0]

\* An exception of class exc whose str() is msg; status is the status_code
\* attribute of an OllamaAPIError (0 for the classes that have none).
Raise(exc, msg, status) ==
    [kind |-> "raise", val |-> JNull, exc |-> exc, msg |-> msg, status |-> status]

\* The three exception classes of client.py. OllamaConnectionError and
\* OllamaAPIError derive from OllamaClientError.
OllamaClientError == "OllamaClientError"

OllamaConnectionError == "OllamaConnectionError"

OllamaAPIError == "OllamaAPIError"

----------------------------------------------------------------------------
(* The pydantic models of models.py: per class, its fields with their      *)
(* annotation, whether they are required, whether None is accepted and the *)
(* default.                                                                *)

Req(n, t) == [name |-> n, type |-> t, required |-> TRUE, nullable |-> FALSE, default |-> JNull]

Opt(n, t) == [name |-> n, type |-> t, required |-> FALSE, nullable |-> TRUE, default |-> JNull]

Dflt(n, t, d) == [name |-> n, type |-> t, required |-> FALSE, nullable |-> FALSE, default |-> d]

ModelDetailsFields ==
    {Opt("parent_model", "str"), Opt("format", "str"), Opt("family", "str"),
     Opt("families", "list[str]"), Opt("parameter_size", "str"),
     Opt("quantization_level", "str")}

ModelInfoFields ==
    {Req("name", "str"), Dflt("model", "str", JStr("")), Req("modified_at", "str"),
     Req("size", "int"), Req("digest", "str"), Opt("details", "ModelDetails")}

TimingFields ==
    {Opt("total_duration", "int"), Opt("load_duration", "int"),
     Opt("prompt_eval_count", "int"), Opt("prompt_eval_duration", "int"),
     Opt("eval_count", "int"), Opt("eval_duration", "int")}

GenerateRequestFields ==
    {Req("model", "str"), Req("prompt", "str"), Dflt("stream", "bool", JBool(TRUE)),
     Opt("system", "str"), Opt("template", "str"), Opt("context", "list[int]"),
     Opt("options", "dict"), Opt("format", "str"), Dflt("raw", "bool", JBool(FALSE)),
     Opt("keep_alive", "str")}

GenerateResponseFields ==
    {Req("model", "str"), Req("created_at", "str"), Req("response", "str"),
     Req("done", "bool"), Opt("context", "list[int]")} \cup TimingFields

ChatMessageFields ==
    {Req("role", "role"), Req("content", "str"), Opt("images", "list[str]")}

ChatRequestFields ==
    {Req("model", "str"), Req("messages", "list[ChatMessage]"),
     Dflt("stream", "bool", JBool(TRUE)), Opt("format", "str"), Opt("options", "dict"),
     Opt("template", "str"), Opt("keep_alive", "str")}

ChatResponseFields ==
    {Req("model", "str"), Req("created_at", "str"), Req("message", "ChatMessage"),
     Req("done", "bool")} \cup TimingFields

PullRequestFields ==
    {Req("name", "str"), Dflt("insecure", "bool", JBool(FALSE)),
     Dflt("stream", "bool", JBool(TRUE))}

PullResponseFields ==
    {Req("status", "str"), Opt("digest", "str"), Opt("total", "int"),
     Opt("completed", "int")}

PushRequestFields == PullRequestFields

PushResponseFields == PullResponseFields

DeleteRequestFields == {Req("name", "str")}

ShowRequestFields == {Req("name", "str")}

ShowResponseFields ==
    {Opt("modelfile", "str"), Opt("parameters", "str"), Opt("template", "str"),
     Opt("details", "ModelDetails"), Opt("model_info", "dict")}

ListModelsResponseFields == {Req("models", "list[ModelInfo]")}

EmbeddingsRequestFields ==
    {Req("model", "str"), Req("prompt", "str"), Opt("options", "dict"),
     Opt("keep_alive", "str")}

EmbeddingsResponseFields == {Req("embedding", "list[float]")}

\* HostConfig.port when none is given.
DefaultPort == 11434

HostConfigFields ==
    {Req("hostname", "str"), Dflt("port", "int", JNum(DefaultPort)),
     Dflt("protocol", "str", JStr("http")), Dflt("verify_ssl", "bool", JBool(TRUE))}

\* Config.hosts when none is given.
DefaultHosts == [local |-> JObj([hostname |-> JStr("localhost")])]

ConfigFields ==
    {Dflt("default_host", "str", JStr("local")),
     Dflt("hosts", "dict[str, HostConfig]", JObj(DefaultHosts)),
     Dflt("settings", "dict", JObj(EmptyFields))}

Fields(cls) ==
    CASE cls = "ModelDetails" -> ModelDetailsFields
      [] cls = "HostConfig" -> HostConfigFields
      [] cls = "Config" -> ConfigFields
      [] cls = "ModelInfo" -> ModelInfoFields
      [] cls = "GenerateRequest" -> GenerateRequestFields
      [] cls = "GenerateResponse" -> GenerateResponseFields
      [] cls = "ChatMessage" -> ChatMessageFields
      [] cls = "ChatRequest" -> ChatRequestFields
      [] cls = "ChatResponse" -> ChatResponseFields
      [] cls = "PullRequest" -> PullRequestFields
      [] cls = "PullResponse" -> PullResponseFields
      [] cls = "PushRequest" -> PushRequestFields
      [] cls = "PushResponse" -> PushResponseFields
      [] cls = "DeleteRequest" -> DeleteRequestFields
      [] cls = "ShowRequest" -> ShowRequestFields
      [] cls = "ShowResponse" -> ShowResponseFields
      [] cls = "ListModelsResponse" -> ListModelsResponseFields
      [] cls = "EmbeddingsRequest" -> EmbeddingsRequestFields
      [] cls = "EmbeddingsResponse" -> EmbeddingsResponseFields

\* The fields of cls that have no default: a value of the class cannot
\* exist without them.
RequiredNames(cls) == {fld.name : fld \in {x \in Fields(cls) : x.required}}

Roles == {"system", "user", "assistant"}

RECURSIVE TypeOK(_, _)

\* pydantic's check of one field of the keyword arguments fs.
FieldOK(fs, fld) ==
    IF fld.name \in DOMAIN fs
    THEN (fld.nullable /\ fs[fld.name].j = "null") \/ TypeOK(fs[fld.name], fld.type)
    ELSE ~fld.required

\* pydantic's validation of the keyword arguments fs against class cls
\* (unknown keys are ignored).
Valid(cls, fs) == \A fld \in Fields(cls) : FieldOK(fs, fld)

\* Whether value v is accepted for annotation type. The values drawn here
\* are JSON values of plain kinds, so pydantic's lax coercions (a numeric
\* string for an int, 0/1 for a bool) do not arise.
TypeOK(v, type) ==
    CASE type = "str" -> v.j = "str"
      [] type = "int" -> v.j = "num"
      [] type = "bool" -> v.j = "bool"
      [] type = "dict" -> v.j = "obj"
      [] type = "role" -> v.j = "str" /\ v.s \in Roles
      [] type \in {"list[int]", "list[float]"} ->
            v.j = "list" /\ \A i \in 1..Len(v.items) : v.items[i].j = "num"
      [] type = "list[str]" ->
            v.j = "list" /\ \A i \in 1..Len(v.items) : v.items[i].j = "str"
      [] type = "ModelDetails" -> v.j = "obj" /\ Valid("ModelDetails", v.f)
      [] type = "dict[str, HostConfig]" ->
            v.j = "obj" /\ \A a \in DOMAIN v.f :
                v.f[a].j = "obj" /\ Valid("HostConfig", v.f[a].f)
      [] type = "ChatMessage" -> v.j = "obj" /\ Valid("ChatMessage", v.f)
      [] type = "list[ModelInfo]" ->
            v.j = "list" /\ \A i \in 1..Len(v.items) :
                v.items[i].j = "obj" /\ Valid("ModelInfo", v.items[i].f)
      [] type = "list[ChatMessage]" ->
            v.j = "list" /\ \A i \in 1..Len(v.items) :
                v.items[i].j = "obj" /\ Valid("ChatMessage", v.items[i].f)

RECURSIVE Instance(_, _)

\* A validated field value as the instance holds it: a nested mapping
\* becomes an instance of the nested class.
Coerce(v, type) ==
    CASE v.j = "null" -> v
      [] type \in {"ModelDetails", "ChatMessage"} -> Instance(type, v.f)
      [] type = "list[ModelInfo]" ->
            JList([i \in 1..Len(v.items) |-> Instance("ModelInfo", v.items[i].f)])
      [] type = "list[ChatMessage]" ->
            JList([i \in 1..Len(v.items) |-> Instance("ChatMessage", v.items[i].f)])
      [] OTHER -> v

\* The instance pydantic builds from validated keyword arguments: every
\* field of the class, absent ones at their default.
Instance(cls, fs) ==
    [j |-> "model", cls |-> cls,
     f |-> [n \in {fld.name : fld \in Fields(cls)} |->
               LET fld == CHOOSE x \in Fields(cls) : x.name = n
               IN  IF n \in DOMAIN fs THEN Coerce(fs[n], fld.type) ELSE fld.default]]

RECURSIVE DumpReversingLists(_)

\* model_dump() that emits every list back to front.
DumpReversingLists(v) ==
    CASE v.j = "model" -> JObj([n \in DOMAIN v.f |-> DumpReversingLists(v.f[n])])
      [] v.j = "list" ->
            JList([i \in 1..Len(v.items) |->
                      DumpReversingLists(v.items[Len(v.items) + 1 - i])])
      [] OTHER -> v

RECURSIVE Dump(_)

\* BaseModel.model_dump(): the instance as a plain dict, every field
\* included (None ones too), nested instances dumped likewise.
Dump(v) ==
    CASE v.j = "model" -> JObj([n \in DOMAIN v.f |-> Dump(v.f[n])])
      [] v.j = "list" -> JList([i \in 1..Len(v.items) |-> Dump(v.items[i])])
      [] OTHER -> v

\* Cls(**data): a TypeError when data is no mapping, a pydantic
\* ValidationError when a field is missing or of the wrong type, else the
\* instance.
Construct(cls, data) ==
    IF data.j # "obj"
    THEN Raise("TypeError", JStr("argument after ** must be a mapping, not " \o data.j), 0)
    ELSE IF ~Valid(cls, data.f)
         THEN Raise("ValidationError", JStr("validation error for " \o cls), 0)
         ELSE Return(Instance(cls, data.f))

----------------------------------------------------------------------------
(* The host profile and the client object.                                 *)

\* get_base_url without the port.
GetBaseUrlWithoutPort(hc) == hc.protocol \o "://" \o hc.hostname

\* HostConfig.get_base_url: protocol://hostname:port.
GetBaseUrl(hc) == hc.protocol \o "://" \o hc.hostname \o ":" \o ToString(hc.port)

\* OllamaClient.__init__: the client keeps the profile, derives base_url
\* from it once and opens its httpx.Client.
NewClient(hc, timeout) ==
    [host_config |-> hc, base_url |-> GetBaseUrl(hc), timeout |-> timeout,
     closed |-> FALSE, exited |-> "no"]

\* OllamaClient.close: closes the httpx client.
close(c) == [c EXCEPT !.closed = TRUE]

\* __exit__ that closes only when the block ended without an exception.
ExitClosesOnSuccessOnly(c, exc_type) ==
    IF exc_type = "None"
    THEN [close(c) EXCEPT !.exited = exc_type]
    ELSE [c EXCEPT !.exited = exc_type]

\* OllamaClient.__exit__(exc_type, exc_val, exc_tb): self.close(), whether
\* or not an exception is leaving the with block. exited keeps exc_type:
\* "no" while the block has not ended, "None" after a normal end, else the
\* class of the exception that left the block.
Exit(c, exc_type) == [close(c) EXCEPT !.exited = exc_type]

\* The profiles a client is built with.
Profiles ==
    {[hostname |-> "localhost", port |-> 11434, protocol |-> "http", verify_ssl |-> TRUE],
     [hostname |-> "example.com", port |-> 443, protocol |-> "https", verify_ssl |-> TRUE]}

DefaultTimeout == 120

----------------------------------------------------------------------------
(* Configuration: the files, the environment and the Config they resolve   *)
(* to. Raw configuration data are dicts of YAML values (the fields of a    *)
(* JObj); HostConfig and Config objects are records of their attributes.   *)

\* HostConfig(**fs) for keyword arguments that passed validation.
HostConfigOf(fs) ==
    [hostname |-> fs["hostname"].s,
     port |-> IF "port" \in DOMAIN fs THEN fs["port"].n ELSE DefaultPort,
     protocol |-> IF "protocol" \in DOMAIN fs THEN fs["protocol"].s ELSE "http",
     verify_ssl |-> IF "verify_ssl" \in DOMAIN fs THEN fs["verify_ssl"].b ELSE TRUE]

\* Config(**fs) for keyword arguments that passed validation: hosts given
\* in fs replace the default hosts as a whole.
ConfigOf(fs) ==
    [default_host |-> IF "default_host" \in DOMAIN fs THEN fs["default_host"].s ELSE "local",
     hosts |-> LET hs == IF "hosts" \in DOMAIN fs THEN fs["hosts"].f ELSE DefaultHosts
               IN  [a \in DOMAIN hs |-> HostConfigOf(hs[a].f)],
     settings |-> IF "settings" \in DOMAIN fs THEN fs["settings"].f ELSE EmptyFields]

\* str.rsplit(":", 1): the place of the last ":" of s, 0 when there is none.
RECURSIVE LastColon(_, _)

LastColon(s, i) ==
    IF i = 0 THEN 0
    ELSE IF SubSeq(s, i, i) = ":" THEN i ELSE LastColon(s, i - 1)

Digits == <<"0", "1", "2", "3", "4", "5", "6", "7", "8", "9">>

\* Whether int(s) succeeds, for the strings drawn here: plain decimal
\* digits (no sign, blanks or underscores occur in them).
IsInt(s) ==
    /\ Len(s) > 0
    /\ \A i \in 1..Len(s) : \E d \in 1..10 : SubSeq(s, i, i) = Digits[d]

RECURSIVE IntOf(_)

\* int(s) of a string of decimal digits.
IntOf(s) ==
    IF Len(s) = 0 THEN 0
    ELSE IntOf(SubSeq(s, 1, Len(s) - 1)) * 10
         + (CHOOSE d \in 1..10 : SubSeq(s, Len(s), Len(s)) = Digits[d]) - 1

\* The HostConfig built from "hostname" or "hostname:port" text: the part
\* after the last colon is the port when int() accepts it, else the whole
\* text is the hostname.
ParseHostPort(s) ==
    LET i == LastColon(s, Len(s))
    IN  IF i > 0 /\ IsInt(SubSeq(s, i + 1, Len(s)))
        THEN [hostname |-> JStr(SubSeq(s, 1, i - 1)),
              port |-> JNum(IntOf(SubSeq(s, i + 1, Len(s))))]
        ELSE [hostname |-> JStr(s)]

\* Python's truth of an optional string or integer: None, "" and 0 are false.
Truthy(v) ==
    \/ v.j = "str" /\ v.s # ""
    \/ v.j = "num" /\ v.n # 0

\* Config.get_host_config: the stored profile of a known alias (the very
\* object the Config holds), else a new profile parsed from the alias.
get_host_config(config, host_alias) ==
    LET alias == IF host_alias = JNull THEN config.default_host ELSE host_alias.s
    IN  IF alias \in DOMAIN config.hosts
        THEN [stored |-> TRUE, alias |-> alias, hc |-> config.hosts[alias]]
        ELSE [stored |-> FALSE, alias |-> alias, hc |-> HostConfigOf(ParseHostPort(alias))]

\* A file that does not exist.
NoFile == [j |-> "absent"]

\* get_config_paths: the standard files that exist, the local one first.
get_config_paths(fs) == SelectSeq(<<"local", "global">>, LAMBDA p : fs[p] # NoFile)

reversed(s) == [i \in 1..Len(s) |-> s[Len(s) + 1 - i]]

\* load_config_file: `data or {}` of the parsed YAML document.
load_config_file(doc) == IF doc.j = "obj" THEN doc.f ELSE EmptyFields

RECURSIVE merge_configs(_, _)

\* merge_configs: override wins key by key, dicts on both sides are merged.
merge_configs(base, override) ==
    [k \in DOMAIN base \cup DOMAIN override |->
        IF k \notin DOMAIN override THEN base[k]
        ELSE IF k \in DOMAIN base /\ base[k].j = "obj" /\ override[k].j = "obj"
             THEN JObj(merge_configs(base[k].f, override[k].f))
             ELSE override[k]]

RECURSIVE MergeFiles(_, _, _)

\* The loop of load_config over the standard files, in the order given.
MergeFiles(fs, paths, config_data) ==
    IF paths = <<>> THEN config_data
    ELSE MergeFiles(fs, Tail(paths),
                    merge_configs(config_data, load_config_file(fs[Head(paths)])))

\* get_env_overrides: nothing unless OLLAMA_HOST is set; then the host
\* "env" from OLLAMA_HOST, with OLLAMA_PORT and OLLAMA_PROTOCOL over it,
\* made the default host.
get_env_overrides(env) ==
    IF ~Truthy(env["OLLAMA_HOST"]) THEN EmptyFields
    ELSE LET parsed == ParseHostPort(env["OLLAMA_HOST"].s)
             with_port == IF Truthy(env["OLLAMA_PORT"]) /\ IsInt(env["OLLAMA_PORT"].s)
                          THEN [port |-> JNum(IntOf(env["OLLAMA_PORT"].s))] @@ parsed
                          ELSE parsed
             host_config == IF /\ Truthy(env["OLLAMA_PROTOCOL"])
                               /\ env["OLLAMA_PROTOCOL"].s \in {"http", "https"}
                            THEN [protocol |-> env["OLLAMA_PROTOCOL"]] @@ with_port
                            ELSE with_port
         IN  [hosts |-> JObj([env |-> JObj(host_config)]), default_host |-> JStr("env")]

\* load_config: the file at config_path alone when one is given, else the
\* global file with the local file over it; the environment overrides over
\* that; Config() when nothing was found, else the validated Config.
load_config(config_path, fs, env) ==
    LET from_files == IF config_path # "none"
                      THEN load_config_file(fs[config_path])
                      ELSE MergeFiles(fs, reversed(get_config_paths(fs)), EmptyFields)
        env_overrides == get_env_overrides(env)
        config_data == IF DOMAIN env_overrides # {}
                       THEN merge_configs(from_files, env_overrides)
                       ELSE from_files
    IN  IF DOMAIN config_data = {} THEN Return(ConfigOf(EmptyFields))
        ELSE IF Valid("Config", config_data) THEN Return(ConfigOf(config_data))
        ELSE Raise("ValueError", JStr("Invalid configuration"), 0)

\* get_client_from_context: the profile get_host_config returns, its port
\* assigned when a port is given (an assignment to the object itself, which
\* for a known alias is the one the Config holds), and a client built on it.
get_client_from_context(config, host, port) ==
    LET found == IF Truthy(host) THEN get_host_config(config, host)
                 ELSE get_host_config(config, JNull)
        host_config == IF Truthy(port) THEN [found.hc EXCEPT !.port = port.n] ELSE found.hc
        timeout == IF "timeout" \in DOMAIN config.settings
                   THEN config.settings["timeout"].n ELSE DefaultTimeout
    IN  [config |-> IF found.stored
                    THEN [config EXCEPT !.hosts[found.alias] = host_config]
                    ELSE config,
         client |-> NewClient(host_config, timeout)]

\* The client variable of a command before get_client_from_context returned.
NoClient ==
    [host_config |-> [hostname |-> "", port |-> 0, protocol |-> "", verify_ssl |-> FALSE],
     base_url |-> "", timeout |-> 0, closed |-> FALSE, exited |-> "no"]

\* The environment with none of the three variables set.
NoEnviron == [OLLAMA_HOST |-> JNull, OLLAMA_PORT |-> JNull, OLLAMA_PROTOCOL |-> JNull]

\* The environments drawn: each variable unset or set, to a value the code
\* accepts or to one it does not.
Environs ==
    [OLLAMA_HOST : {JNull, JStr("envhost"), JStr("envhost:9000"), JStr("envhost:abc")},
     OLLAMA_PORT : {JNull, JStr("7777"), JStr("abc")},
     OLLAMA_PROTOCOL : {JNull, JStr("https"), JStr("ftp")}]

\* ~/.config/ollama-ctl/config.yaml
DocGlobal ==
    JObj([default_host |-> JStr("prod"),
          hosts |-> JObj([prod |-> JObj([hostname |-> JStr("prod.example.com"),
                                         port |-> JNum(8443),
                                         protocol |-> JStr("https")])]),
          settings |-> JObj([timeout |-> JNum(30)])])

\* ./.ollama-ctl.yaml documents: one that renames the host of prod, one
\* that only names a default host, one that only lists a host.
DocLocalProd == JObj([hosts |-> JObj([prod |-> JObj([hostname |-> JStr("staging.example.com")])])])

DocLocalDefault == JObj([default_host |-> JStr("dev")])

DocLocalHosts == JObj([hosts |-> JObj([dev |-> JObj([hostname |-> JStr("dev.local")])])])

\* Files given with --config: a complete one, and one whose host has no hostname.
DocLab ==
    JObj([default_host |-> JStr("lab"),
          hosts |-> JObj([lab |-> JObj([hostname |-> JStr("lab.local"), port |-> JNum(11435)])])])

DocInvalid == JObj([hosts |-> JObj([bad |-> JObj([port |-> JNum(1)])])])

NoFiles == [specified |-> NoFile, local |-> NoFile, global |-> NoFile]

\* The file systems drawn; an empty file parses to None (JNull).
FileSystems ==
    [specified : {NoFile, DocLab, DocInvalid},
     local : {NoFile, JNull, DocLocalProd, DocLocalDefault, DocLocalHosts},
     global : {NoFile, DocGlobal}]

\* The click context of a command line before the group callback ran:
\* ctx.obj is an empty dict.
NewCtx == [obj |-> EmptyFields, exit_code |-> 0, running |-> TRUE]

\* The --host and --port options of a command.
HostArgs == {JNull, JStr("prod"), JStr("env"), JStr("gpubox"), JStr("gpubox:8080")}

PortArgs == {JNull, JNum(8080)}

----------------------------------------------------------------------------
(* What the transport meets when it sends a request.                       *)
(*   net    "ok": a response arrived; otherwise the failure of the send    *)
(*   status the HTTP status of the response                                *)
(*   body   the response body of a unary or failed request                 *)
(*   lines  the lines of a streamed 2xx body that arrive                   *)
(*   cut    what ends the streamed body after those lines                  *)

\* httpx.ConnectError: connection refused, DNS failure, network unreachable.
ConnectFailures == {"refused", "dns", "unreachable"}

\* httpx.TimeoutException (connect, read, write or pool timeout).
TimeoutFailures == {"timeout"}

\* Any other httpx.TransportError, here httpx.ReadError (the connection is
\* reset while the response is read).
OtherFailures == {"read_error"}

\* str() of the httpx exception (or RuntimeError) of a failed send.
CauseText(net) ==
    CASE net = "refused" -> "[Errno 111] Connection refused"
      [] net = "dns" -> "[Errno -2] Name or service not known"
      [] net = "unreachable" -> "[Errno 101] Network is unreachable"
      [] net = "timeout" -> "timed out"
      [] net = "read_error" -> "[Errno 104] Connection reset by peer"
      [] net = "closed" -> "Cannot send a request, as the client has been closed."

Statuses == {200, 204, 404, 500}

\* httpx.Response.is_success; raise_for_status raises HTTPStatusError for
\* every other status.
IsSuccess(status) == 200 <= status /\ status <= 299

UnaryBodies ==
    {TxtEmpty, TxtPlain, TxtErrNotFound, TxtEmptyObj, TxtJsonStr, TxtNum, TxtModels,
     TxtModelsModelOnly, TxtModelsNameEmpty, TxtModelsBoth, TxtGen, TxtChat, TxtEmb, TxtShow, TxtShowBad, TxtStatus}

\* The bodies a server sends with a non-2xx status on a streaming endpoint.
ErrorBodies == {TxtEmpty, TxtPlain, TxtErrNotFound, TxtEmptyObj}

\* The lines a streaming endpoint sends: blank and malformed lines, JSON
\* that is no object, an object without the required fields, and the
\* endpoint's own chunks.
CommonLines == {LineBlank, LineBad, TxtNum, LinePartial}

StreamLines(op) ==
    CommonLines \cup (CASE op = "generate" ->
                            {LineGen, TxtGen, LinePartialHel, LinePartialDone}
                        [] op = "chat" -> {TxtChat}
                        [] OTHER -> {TxtStatus})

\* How a streamed body ends after its lines: normally, by a read timeout
\* (httpx.ReadTimeout) or by a reset connection (httpx.ReadError).
Cuts == {"none", "read_timeout", "read_error"}

SeqsUpTo(S, n) == UNION {[1..k -> S] : k \in 0..n}

NetFailure(net) == [net |-> net, status |-> 0, body |-> "", lines |-> <<>>, cut |-> "none"]

UnaryResponse(status, body) ==
    [net |-> "ok", status |-> status, body |-> body, lines |-> <<>>, cut |-> "none"]

StreamResponse(status, body, lines, cut) ==
    [net |-> "ok", status |-> status, body |-> body, lines |-> lines, cut |-> cut]

NoOutcome == NetFailure("none")

\* httpx refuses to send on a closed client (RuntimeError); otherwise the
\* network and the server decide.
UnaryOutcomes(c) ==
    IF c.closed
    THEN {NetFailure("closed")}
    ELSE {NetFailure(n) : n \in ConnectFailures \cup TimeoutFailures \cup OtherFailures}
         \cup {UnaryResponse(st, b) : st \in Statuses, b \in UnaryBodies}

StreamOutcomes(c, op) ==
    IF c.closed
    THEN {NetFailure("closed")}
    ELSE {NetFailure(n) : n \in ConnectFailures \cup TimeoutFailures \cup OtherFailures}
         \cup {StreamResponse(st, b, <<>>, "none") :
                  st \in {x \in Statuses : ~IsSuccess(x)}, b \in ErrorBodies}
         \cup {StreamResponse(200, "", ls, cut) :
                  ls \in SeqsUpTo(StreamLines(op), MaxLines), cut \in Cuts}

----------------------------------------------------------------------------
(* The transport: _make_request and _stream_request.                       *)

\* The class of the exception a failed send raises inside the transport.
SendException(net) ==
    CASE net \in ConnectFailures -> "httpx.ConnectError"
      [] net \in TimeoutFailures -> "httpx.TimeoutException"
      [] net \in OtherFailures -> "httpx.ReadError"
      [] net = "closed" -> "RuntimeError"

\* e.response.json() in an HTTPStatusError handler. A unary response has
\* been read, so it is json.loads of the body; a streamed response was
\* never read and is closed when the handler runs, so it raises
\* httpx.ResponseNotRead.
ResponseJson(o, read) == IF read THEN JsonLoads(o.body) ELSE ParseFail

\* The handler without the lookup of the body's "error" entry.
APIErrorMessageIgnoresBody(status, parsed) == JStr("API error: " \o ToString(status))

\* The handler with a fallback message that leaves the status out.
APIErrorMessageWithoutStatus(status, parsed) ==
    IF parsed.ok /\ parsed.val.j = "obj" /\ "error" \in DOMAIN parsed.val.f
    THEN parsed.val.f["error"]
    ELSE JStr("API error")

\* The handler of httpx.HTTPStatusError (the same text in both transports):
\* the message is the body's "error" entry when e.response.json() returns a
\* mapping that has one, else "API error: <status>". Every exception of the
\* lookup is swallowed: json() failing, `in` on a number or null, indexing
\* a string or a list by "error".
APIErrorMessage(status, parsed) ==
    IF parsed.ok /\ parsed.val.j = "obj" /\ "error" \in DOMAIN parsed.val.f
    THEN parsed.val.f["error"]
    ELSE JStr("API error: " \o ToString(status))

ConnectErrorMessage(base_url, cause) ==
    JStr("Failed to connect to Ollama server at " \o base_url \o ": " \o cause)

TimeoutMessage(base_url, cause) ==
    JStr("Request to " \o base_url \o " timed out: " \o cause)

\* _make_request: send, raise_for_status, response.json(); the except
\* clauses in their order.
MakeRequest(c, o) ==
    IF o.net \in ConnectFailures
    THEN Raise(OllamaConnectionError, ConnectErrorMessage(c.base_url, CauseText(o.net)), 0)
    ELSE IF o.net \in TimeoutFailures
    THEN Raise(OllamaConnectionError, TimeoutMessage(c.base_url, CauseText(o.net)), 0)
    ELSE IF o.net # "ok"
    THEN Raise(OllamaClientError, JStr("Unexpected error: " \o CauseText(o.net)), 0)
    ELSE IF ~IsSuccess(o.status)
    THEN Raise(OllamaAPIError, APIErrorMessage(o.status, ResponseJson(o, TRUE)), o.status)
    ELSE IF ~JsonLoads(o.body).ok
    THEN Raise(OllamaClientError, JStr("Unexpected error: " \o JSONDecodeErrorText), 0)
    ELSE Return(JsonLoads(o.body).val)

\* Opening the stream in _stream_request: client.stream(...) and
\* raise_for_status(). There is no catch-all clause: an exception that is
\* neither ConnectError, TimeoutException nor HTTPStatusError leaves the
\* generator as it is.
StreamOpen(c, o) ==
    IF o.net \in ConnectFailures
    THEN Raise(OllamaConnectionError, ConnectErrorMessage(c.base_url, CauseText(o.net)), 0)
    ELSE IF o.net \in TimeoutFailures
    THEN Raise(OllamaConnectionError, TimeoutMessage(c.base_url, CauseText(o.net)), 0)
    ELSE IF o.net # "ok"
    THEN Raise(SendException(o.net), JStr(CauseText(o.net)), 0)
    ELSE IF ~IsSuccess(o.status)
    THEN Raise(OllamaAPIError, APIErrorMessage(o.status, ResponseJson(o, FALSE)), o.status)
    ELSE Return(JNull)

\* _stream_request with the failures of iter_lines() swallowed: whatever
\* ends the body, the generator just ends.
StreamEndSilent(c, cut) == Stop

\* The end of the streamed body in _stream_request: iter_lines() ends, or
\* raises what cut the body.
StreamEnd(c, cut) ==
    CASE cut = "none" -> Stop
      [] cut = "read_timeout" ->
            Raise(OllamaConnectionError, TimeoutMessage(c.base_url, "timed out"), 0)
      [] cut = "read_error" ->
            Raise("httpx.ReadError", JStr(CauseText("read_error")), 0)

RECURSIVE StreamRequestNextBreaksOnBadLine(_, _, _, _)

\* _stream_request with `break` in place of `continue` in the handler of
\* json.JSONDecodeError: a malformed line ends the iteration.
StreamRequestNextBreaksOnBadLine(c, lines, cut, pos) ==
    IF pos = Len(lines)
    THEN [res |-> StreamEnd(c, cut), pos |-> pos]
    ELSE IF Strip(lines[pos + 1]) = ""
         THEN StreamRequestNextBreaksOnBadLine(c, lines, cut, pos + 1)
         ELSE IF JsonLoads(lines[pos + 1]).ok
              THEN [res |-> Yield(JsonLoads(lines[pos + 1]).val), pos |-> pos + 1]
              ELSE [res |-> Stop, pos |-> pos + 1]

RECURSIVE StreamRequestNext(_, _, _, _)

\* One next() of the _stream_request generator whose response has delivered
\* pos of its lines: the loop over iter_lines() up to its next yield. res is
\* the yielded value, the end of the generator or the exception; pos the
\* number of lines read when it suspends.
StreamRequestNext(c, lines, cut, pos) ==
    IF pos = Len(lines)
    THEN [res |-> StreamEnd(c, cut), pos |-> pos]
    ELSE IF Strip(lines[pos + 1]) = ""
         THEN StreamRequestNext(c, lines, cut, pos + 1)
         ELSE IF JsonLoads(lines[pos + 1]).ok
              THEN [res |-> Yield(JsonLoads(lines[pos + 1]).val), pos |-> pos + 1]
              ELSE StreamRequestNext(c, lines, cut, pos + 1)

RECURSIVE GeneratorNext(_, _, _, _, _)

\* One next() of the generator a streaming operation returns (the inner
\* def generator() of pull_model, push_model, generate and chat): it takes
\* chunks from _stream_request until one builds a cls instance, which it
\* yields; a pydantic ValidationError skips the chunk, any other exception
\* of cls(**chunk) leaves the generator. raw lists what _stream_request
\* yielded on the way.
GeneratorNext(c, cls, lines, cut, pos) ==
    LET s == StreamRequestNext(c, lines, cut, pos)
        r == Construct(cls, s.res.val)
    IN  IF s.res.kind # "yield"
        THEN [res |-> s.res, pos |-> s.pos, raw |-> <<>>]
        ELSE IF r.kind = "return"
        THEN [res |-> Yield(r.val), pos |-> s.pos, raw |-> <<s.res.val>>]
        ELSE IF r.exc = "ValidationError"
        THEN LET n == GeneratorNext(c, cls, lines, cut, s.pos)
             IN  [n EXCEPT !.raw = <<s.res.val>> \o @]
        ELSE [res |-> r, pos |-> s.pos, raw |-> <<s.res.val>>]

----------------------------------------------------------------------------
(* The API operations. Each yields the record of the call:                 *)
(*   op, stream  the method and its mode                                   *)
(*   req         the JSON payload built for the request (null when none)   *)
(*   srv         what the transport met (NoOutcome when nothing was sent)  *)
(*   transport   what the transport produced for the caller's request      *)
(*   res         what the caller of the method, or of next(), gets         *)

CallRecord(op, stream, req, srv, transport, res) ==
    [op |-> op, stream |-> stream, req |-> req, srv |-> srv,
     transport |-> transport, res |-> res]

NoCall == CallRecord("none", FALSE, JNull, NoOutcome, NoResult, NoResult)

\* A request class cannot be built: the pydantic error leaves the method
\* before anything is sent.
RequestRejected(op, stream, request) ==
    CallRecord(op, stream, JNull, NoOutcome, NoResult, request)

Generator == [j |-> "generator"]

\* try: Cls(**data) / except ValidationError: raise OllamaClientError(
\* "Failed to parse <label>: {e}"). Only ValidationError is caught.
ParseResponse(cls, label, data) ==
    LET r == Construct(cls, data)
    IN  IF r.kind = "raise" /\ r.exc = "ValidationError"
        THEN Raise(OllamaClientError, JStr("Failed to parse " \o label \o ": " \o r.msg.s), 0)
        ELSE r

\* A unary exchange: send the dumped request, decode the JSON reply.
UnaryCall(c, op, payload, o, cls, label) ==
    LET data == MakeRequest(c, o)
    IN  CallRecord(op, FALSE, payload, o, data,
                   IF data.kind = "raise" THEN data ELSE ParseResponse(cls, label, data.val))

\* stream=True: the method returns the generator; nothing is sent yet.
StreamCall(op, payload) ==
    CallRecord(op, TRUE, payload, NoOutcome, NoResult, Return(Generator))

list_models(c, o) ==
    LET k == UnaryCall(c, "list_models", JNull, o, "ListModelsResponse", "models list")
    IN  IF k.res.kind = "return"
        THEN [k EXCEPT !.res = Return(k.res.val.f["models"])]
        ELSE k

show_model(c, name, o) ==
    LET request == Construct("ShowRequest", JObj([name |-> name]))
    IN  IF request.kind = "raise"
        THEN RequestRejected("show_model", FALSE, request)
        ELSE UnaryCall(c, "show_model", Dump(request.val), o, "ShowResponse", "model details")

\* Without streaming pull_model and push_model return the transport's dict
\* undecoded.
pull_model(c, name, stream, insecure, o) ==
    LET request == Construct("PullRequest",
                             JObj([name |-> name, stream |-> JBool(stream),
                                   insecure |-> JBool(insecure)]))
    IN  IF request.kind = "raise"
        THEN RequestRejected("pull_model", stream, request)
        ELSE IF stream
        THEN StreamCall("pull_model", Dump(request.val))
        ELSE CallRecord("pull_model", FALSE, Dump(request.val), o,
                        MakeRequest(c, o), MakeRequest(c, o))

push_model(c, name, stream, insecure, o) ==
    LET request == Construct("PushRequest",
                             JObj([name |-> name, stream |-> JBool(stream),
                                   insecure |-> JBool(insecure)]))
    IN  IF request.kind = "raise"
        THEN RequestRejected("push_model", stream, request)
        ELSE IF stream
        THEN StreamCall("push_model", Dump(request.val))
        ELSE CallRecord("push_model", FALSE, Dump(request.val), o,
                        MakeRequest(c, o), MakeRequest(c, o))

\* delete_model discards what _make_request returns and returns None.
delete_model(c, name, o) ==
    LET request == Construct("DeleteRequest", JObj([name |-> name]))
        data == MakeRequest(c, o)
    IN  IF request.kind = "raise"
        THEN RequestRejected("delete_model", FALSE, request)
        ELSE CallRecord("delete_model", FALSE, Dump(request.val), o, data,
                        IF data.kind = "raise" THEN data ELSE Return(JNull))

generate(c, model, prompt, stream, system, template, context, options, o) ==
    LET request == Construct("GenerateRequest",
                             JObj([model |-> model, prompt |-> prompt,
                                   stream |-> JBool(stream), system |-> system,
                                   template |-> template, context |-> context,
                                   options |-> options]))
    IN  IF request.kind = "raise"
        THEN RequestRejected("generate", stream, request)
        ELSE IF stream
        THEN StreamCall("generate", Dump(request.val))
        ELSE UnaryCall(c, "generate", Dump(request.val), o,
                       "GenerateResponse", "generate response")

chat(c, model, messages, stream, options, o) ==
    LET request == Construct("ChatRequest",
                             JObj([model |-> model, messages |-> messages,
                                   stream |-> JBool(stream), options |-> options]))
    IN  IF request.kind = "raise"
        THEN RequestRejected("chat", stream, request)
        ELSE IF stream
        THEN StreamCall("chat", Dump(request.val))
        ELSE UnaryCall(c, "chat", Dump(request.val), o, "ChatResponse", "chat response")

embeddings(c, model, prompt, options, o) ==
    LET request == Construct("EmbeddingsRequest",
                             JObj([model |-> model, prompt |-> prompt, options |-> options]))
        k == UnaryCall(c, "embeddings", Dump(request.val), o,
                       "EmbeddingsResponse", "embeddings response")
    IN  IF request.kind = "raise"
        THEN RequestRejected("embeddings", FALSE, request)
        ELSE IF k.res.kind = "return"
        THEN [k EXCEPT !.res = Return(k.res.val.f["embedding"])]
        ELSE k

\* health_check with `except OllamaConnectionError` in place of
\* `except Exception`: the other errors of _make_request reach the caller.
health_check_catches_connection_only(c, o) ==
    LET data == MakeRequest(c, o)
    IN  CallRecord("health_check", FALSE, JNull, o, data,
                   IF data.kind = "raise"
                   THEN (IF data.exc = OllamaConnectionError
                         THEN Return(JBool(FALSE))
                         ELSE data)
                   ELSE Return(JBool(TRUE)))

\* health_check: True when _make_request("GET", "/") returns, False when it
\* raises any Exception.
health_check(c, o) ==
    LET data == MakeRequest(c, o)
    IN  CallRecord("health_check", FALSE, JNull, o, data,
                   IF data.kind = "raise" THEN Return(JBool(FALSE)) ELSE Return(JBool(TRUE)))

----------------------------------------------------------------------------
(* The arguments callers pass.                                             *)

\* Model names: one the server has, one it lacks, and the empty string.
NameArgs == {JStr("llama2"), JStr("missing-model"), JStr("")}

\* Prompts: a text and the empty string.
PromptArgs == {JStr("hi"), JStr("")}

\* Conversations: a well-formed one, one whose role is outside
\* ChatMessage's Literal, and one of several messages, two of them
\* identical and consecutive.
MessageArgs ==
    {JList(<<JObj([role |-> JStr("user"), content |-> JStr("hi")])>>),
     JList(<<JObj([role |-> JStr("tool"), content |-> JStr("hi")])>>),
     JList(<<JObj([role |-> JStr("system"), content |-> JStr("be brief")]),
             JObj([role |-> JStr("user"), content |-> JStr("hi")]),
             JObj([role |-> JStr("user"), content |-> JStr("hi")])>>)}

\* The chunk class of each streaming operation.
ChunkClass(op) ==
    CASE op = "generate" -> "GenerateResponse"
      [] op = "chat" -> "ChatResponse"
      [] op = "pull_model" -> "PullResponse"
      [] op = "push_model" -> "PushResponse"

----------------------------------------------------------------------------
(* State.                                                                  *)
(*   client  the OllamaClient: host_config, base_url, timeout, closed      *)
(*   call    the record of the latest call (of a method, or of next())     *)
(*   gen     the generator the latest streaming call returned:             *)
(*     st     "none", "created" (not started), "open" (suspended at a      *)
(*            yield, response open), "done" (finished or failed)           *)
(*     lines, cut  the streamed body the response delivers                 *)
(*     pos    the number of lines read from it                             *)
(*     raw    what _stream_request has yielded                             *)
(*     out    what the generator has yielded to the consumer               *)
(*     fin    how the generator ended: the stop or the exception            *)
(*     resp   the streamed httpx response of `with self.client.stream(...)`: *)
(*            "none" (no response yet), "open", "closed"                     *)
(*   A generator closed by its consumer before its end has st "closed".     *)

NoGen ==
    [st |-> "none", op |-> "none", lines |-> <<>>, cut |-> "none", pos |-> 0,
     raw |-> <<>>, out |-> <<>>, fin |-> NoResult, resp |-> "none"]

NewGen(op) == [NoGen EXCEPT !.st = "created", !.op = op]

\* The generator a call leaves behind: a fresh one when the method
\* returned a generator, none otherwise.
GenOf(k) == IF k.stream /\ k.res.kind = "return" THEN NewGen(k.op) ELSE NoGen

Init ==
    /\ client \in {NewClient(hc, DefaultTimeout) : hc \in Profiles}
    /\ call = NoCall
    /\ gen = NoGen
    /\ environ = NoEnviron
    /\ files = NoFiles
    /\ ctx = NewCtx
    /\ chat_messages = <<>>
    /\ response_text = ""
    /\ seen = 0

\* The caller holds no result and no generator: it is free to make a call.
Idle == call.op = "none"

\* What a method call meets: with stream=True nothing is sent by the call.
CallOutcomes(c, stream) == IF stream THEN {NoOutcome} ELSE UnaryOutcomes(c)

ListModels ==
    /\ Idle
    /\ \E o \in UnaryOutcomes(client) :
           /\ call' = list_models(client, o)
           /\ gen' = GenOf(call')
           /\ UNCHANGED <<client, cfgVars, chatVars>>

ShowModel ==
    /\ Idle
    /\ \E name \in NameArgs, o \in UnaryOutcomes(client) :
           /\ call' = show_model(client, name, o)
           /\ gen' = GenOf(call')
           /\ UNCHANGED <<client, cfgVars, chatVars>>

PullModel ==
    /\ Idle
    /\ \E name \in NameArgs, stream \in BOOLEAN :
         \E o \in CallOutcomes(client, stream) :
           /\ call' = pull_model(client, name, stream, FALSE, o)
           /\ gen' = GenOf(call')
           /\ UNCHANGED <<client, cfgVars, chatVars>>

PushModel ==
    /\ Idle
    /\ \E name \in NameArgs, stream \in BOOLEAN :
         \E o \in CallOutcomes(client, stream) :
           /\ call' = push_model(client, name, stream, FALSE, o)
           /\ gen' = GenOf(call')
           /\ UNCHANGED <<client, cfgVars, chatVars>>

DeleteModel ==
    /\ Idle
    /\ \E name \in NameArgs, o \in UnaryOutcomes(client) :
           /\ call' = delete_model(client, name, o)
           /\ gen' = GenOf(call')
           /\ UNCHANGED <<client, cfgVars, chatVars>>

Generate ==
    /\ Idle
    /\ \E model \in NameArgs, prompt \in PromptArgs, stream \in BOOLEAN :
         \E o \in CallOutcomes(client, stream) :
           /\ call' = generate(client, model, prompt, stream, JNull, JNull, JNull, JNull, o)
           /\ gen' = GenOf(call')
           /\ UNCHANGED <<client, cfgVars, chatVars>>

\* The record of a chat call also keeps the messages the caller passed.
Chat ==
    /\ Idle
    /\ \E model \in NameArgs, messages \in MessageArgs, stream \in BOOLEAN :
         \E o \in CallOutcomes(client, stream) :
           /\ call' = chat(client, model, messages, stream, JNull, o)
                          @@ [messages |-> messages]
           /\ gen' = GenOf(call')
           /\ UNCHANGED <<client, cfgVars, chatVars>>

Embeddings ==
    /\ Idle
    /\ \E model \in NameArgs, prompt \in PromptArgs, o \in UnaryOutcomes(client) :
           /\ call' = embeddings(client, model, prompt, JNull, o)
           /\ gen' = GenOf(call')
           /\ UNCHANGED <<client, cfgVars, chatVars>>

HealthCheck ==
    /\ Idle
    /\ \E o \in UnaryOutcomes(client) :
           /\ call' = health_check(client, o)
           /\ gen' = GenOf(call')
           /\ UNCHANGED <<client, cfgVars, chatVars>>

\* The generator after a next() that read the body (lines, cut) from
\* position gen.pos on, with n what GeneratorNext produced.
Advance(g, lines, cut, n) ==
    [g EXCEPT !.st = IF n.res.kind = "yield" THEN "open" ELSE "done",
              !.lines = lines, !.cut = cut, !.pos = n.pos,
              !.raw = @ \o n.raw,
              !.out = IF n.res.kind = "yield" THEN Append(@, n.res.val) ELSE @,
              !.fin = IF n.res.kind = "yield" THEN NoResult ELSE n.res,
              !.resp = IF n.res.kind = "yield" THEN "open" ELSE "closed"]

\* generator.close() that ends the generator and leaves its response open.
GeneratorCloseLeavesResponse(g) == [g EXCEPT !.st = "closed"]

\* generator.close(), or the finalisation of a generator its consumer
\* dropped: GeneratorExit is raised at the yield where the generator is
\* suspended, leaves the loop of _stream_request through
\* `with self.client.stream(...)`, which closes the response, and matches
\* no except clause. A generator that was never started just ends.
GeneratorClose(g) ==
    [g EXCEPT !.st = "closed", !.resp = IF @ = "open" THEN "closed" ELSE @]

\* The first next() of a generator, against a server whose answer is one
\* of outcomes: _stream_request opens the stream, and when that succeeds
\* the loop runs to its first yield.
IterFirstAmong(outcomes) ==
    /\ gen.st = "created"
    /\ \E o \in outcomes :
         LET open == StreamOpen(client, o)
             n == GeneratorNext(client, ChunkClass(gen.op), o.lines, o.cut, 0)
         IN  IF open.kind = "raise"
             THEN /\ gen' = [gen EXCEPT !.st = "done", !.fin = open,
                                        !.resp = IF o.net = "ok" THEN "closed" ELSE "none"]
                  /\ call' = [call EXCEPT !.srv = o, !.transport = open, !.res = open]
             ELSE /\ gen' = Advance(gen, o.lines, o.cut, n)
                  /\ call' = [call EXCEPT !.srv = o, !.transport = open, !.res = n.res]
    /\ UNCHANGED <<client, cfgVars, chatVars>>

IterFirst == IterFirstAmong(StreamOutcomes(client, gen.op))

\* A later next() of a generator suspended at a yield.
IterNext ==
    /\ gen.st = "open"
    /\ LET n == GeneratorNext(client, ChunkClass(gen.op), gen.lines, gen.cut, gen.pos)
       IN  /\ gen' = Advance(gen, gen.lines, gen.cut, n)
           /\ call' = [call EXCEPT !.res = n.res]
    /\ UNCHANGED <<client, cfgVars, chatVars>>

\* next() of a finished generator that runs its body again from the start:
\* the next step opens the stream anew.
IterAfterEndRestarts ==
    /\ gen.st = "done"
    /\ call' = [call EXCEPT !.res = Stop]
    /\ gen' = NewGen(gen.op)
    /\ UNCHANGED <<client, cfgVars, chatVars>>

\* next() of a generator that has finished: StopIteration, nothing is sent.
IterAfterEnd ==
    /\ gen.st \in {"done", "closed"}
    /\ call' = [call EXCEPT !.res = Stop]
    /\ UNCHANGED <<client, gen, cfgVars, chatVars>>

\* The caller is done with the result of its call: it drops the value or
\* the exception, and the generator if there is one.
Discard ==
    /\ ~Idle
    /\ call' = NoCall
    /\ gen' = NoGen
    /\ UNCHANGED <<client, cfgVars, chatVars>>

\* The consumer stops before the end of the stream: it leaves its loop over
\* the generator, or calls close() on it.
Cancel ==
    /\ gen.st \in {"created", "open"}
    /\ gen' = GeneratorClose(gen)
    /\ call' = [call EXCEPT !.res = Return(JNull)]
    /\ UNCHANGED <<client, cfgVars, chatVars>>

\* close(): closes the httpx client. Taken between calls.
Close ==
    /\ Idle
    /\ ~client.closed
    /\ client' = close(client)
    /\ UNCHANGED <<call, gen, cfgVars, chatVars>>

\* The end of `with ... as client:`: by normal completion or by an
\* exception that leaves the block (what the latest call raised), after any
\* loop over a generator has been left. __exit__ runs, and the block's
\* locals are gone.
ExitScope ==
    /\ client.exited = "no"
    /\ gen.st # "open"
    /\ client' = Exit(client, IF call.res.kind = "raise" THEN call.res.exc ELSE "None")
    /\ call' = NoCall
    /\ gen' = NoGen
    /\ UNCHANGED <<cfgVars, chatVars>>

Next ==
    \/ ListModels
    \/ ShowModel
    \/ PullModel
    \/ PushModel
    \/ DeleteModel
    \/ Generate
    \/ Chat
    \/ Embeddings
    \/ HealthCheck
    \/ IterFirst
    \/ IterNext
    \/ IterAfterEnd
    \/ Discard
    \/ Cancel
    \/ Close
    \/ ExitScope

Spec == Init /\ [][Next]_vars

----------------------------------------------------------------------------
(* The command line: the group callback resolves the configuration, the    *)
(* command then builds its client from it.                                 *)

InitConfig ==
    /\ environ \in Environs
    /\ files \in FileSystems
    /\ ctx = NewCtx
    /\ client = NoClient
    /\ call = NoCall
    /\ gen = NoGen
    /\ chat_messages = <<>>
    /\ response_text = ""
    /\ seen = 0

\* The configuration the group callback stored in the context.
Loaded == "config" \in DOMAIN ctx.obj

\* The group callback cli(): ctx.obj["config"] = load_config(config), or the
\* error is printed and the process exits with status 1. --config is a
\* click.Path(exists=True): a path given names an existing file.
LoadConfig ==
    /\ ctx.running
    /\ ~Loaded
    /\ LET cfg == load_config(IF files.specified # NoFile THEN "specified" ELSE "none",
                              files, environ)
       IN  ctx' = IF cfg.kind = "return"
                  THEN [ctx EXCEPT !.obj = [config |-> cfg.val]]
                  ELSE [ctx EXCEPT !.exit_code = 1, !.running = FALSE]
    /\ UNCHANGED <<client, call, gen, environ, files, chatVars>>

\* A command opens `with get_client_from_context(ctx, host, port) as client:`.
GetClientFromContext ==
    /\ ctx.running
    /\ Loaded
    /\ client = NoClient
    /\ \E host \in HostArgs, port \in PortArgs :
          LET got == get_client_from_context(ctx.obj["config"], host, port)
          IN  /\ ctx' = [ctx EXCEPT !.obj = [config |-> got.config]]
              /\ client' = got.client
    /\ UNCHANGED <<call, gen, environ, files, chatVars>>

NextConfig ==
    \/ LoadConfig
    \/ GetClientFromContext

SpecConfig == InitConfig /\ [][NextConfig]_vars

----------------------------------------------------------------------------
(* Properties.                                                             *)

\* The stream of the current generator was opened: the request was sent and
\* answered with a 2xx status.
StreamOpened == gen.st \in {"open", "done"} /\ call.transport.kind = "return"

\* The lines of the streamed body read so far.
Delivered == SubSeq(gen.lines, 1, gen.pos)

RECURSIVE ParsedValidLines(_)

\* The values of the lines of ls that are JSON documents, in order.
ParsedValidLines(ls) ==
    IF ls = <<>>
    THEN <<>>
    ELSE (IF JsonLoads(Head(ls)).ok THEN <<JsonLoads(Head(ls)).val>> ELSE <<>>)
         \o ParsedValidLines(Tail(ls))

\* C1: whatever mix of valid JSON lines, malformed lines and blank lines a
\* stream body holds, _stream_request has yielded exactly the parsed valid
\* lines among those read, in their order; a generator that ends normally
\* has read the whole body; and no exception arises at a malformed or blank
\* line (an exception comes from what cut the body, or from the caller of
\* _stream_request handling a valid line).
C1_StreamYieldsExactlyValidLines ==
    StreamOpened =>
        /\ gen.raw = ParsedValidLines(Delivered)
        /\ gen.fin.kind = "stop" => gen.pos = Len(gen.lines) /\ gen.cut = "none"
        /\ gen.fin.kind = "raise" =>
              \/ gen.pos = Len(gen.lines) /\ gen.cut # "none"
              \/ gen.pos > 0 /\ JsonLoads(gen.lines[gen.pos]).ok

\* A finished stream whose body mixed a malformed line, a blank line and a
\* valid line that came after the malformed one.
C1_Witness ==
    /\ StreamOpened
    /\ gen.fin.kind = "stop"
    /\ \E i, j, k \in 1..Len(gen.lines) :
          /\ gen.lines[i] = LineBad
          /\ gen.lines[j] = LineBlank
          /\ i < k
          /\ JsonLoads(gen.lines[k]).ok
    /\ Len(gen.raw) = 1

\* The latest call was a unary request that the server answered.
UnaryAnswered == call.op # "none" /\ ~call.stream /\ call.srv.net = "ok"

\* The answer's body is a JSON object with an "error" entry.
HasErrorField(o) ==
    /\ JsonLoads(o.body).ok
    /\ JsonLoads(o.body).val.j = "obj"
    /\ "error" \in DOMAIN JsonLoads(o.body).val.f

\* C2: when a unary request is answered with a non-2xx status and a JSON
\* object body whose "error" entry is X, the transport raises an
\* OllamaAPIError whose message is X and whose status_code is the HTTP
\* status, and every operation that propagates errors (all but
\* health_check, which turns it into False) raises exactly that error; so
\* delete_model on a 404 with {"error":"model not found"} raises
\* OllamaAPIError("model not found", 404).
C2_ErrorFieldIsAPIErrorMessage ==
    /\ (UnaryAnswered /\ ~IsSuccess(call.srv.status) /\ HasErrorField(call.srv)) =>
          /\ call.transport.kind = "raise"
          /\ call.transport.exc = OllamaAPIError
          /\ call.transport.msg = JsonLoads(call.srv.body).val.f["error"]
          /\ call.transport.status = call.srv.status
          /\ call.op # "health_check" => call.res = call.transport
    /\ (UnaryAnswered /\ call.op = "delete_model" /\ call.srv.status = 404
            /\ call.srv.body = TxtErrNotFound) =>
          call.res = Raise(OllamaAPIError, JStr("model not found"), 404)

\* delete_model answered 404 {"error":"model not found"} has raised.
C2_Witness ==
    /\ UnaryAnswered
    /\ call.op = "delete_model"
    /\ call.srv.status = 404
    /\ call.srv.body = TxtErrNotFound
    /\ call.res.kind = "raise"

\* C3: when a unary request is answered with a non-2xx status and a body
\* that is not JSON, or is JSON without an "error" entry, the transport
\* raises an OllamaAPIError (no other class) whose status_code is the HTTP
\* status and whose message is "API error: <status>", and every operation
\* that propagates errors raises exactly that error.
C3_FallbackAPIErrorMessage ==
    (UnaryAnswered /\ ~IsSuccess(call.srv.status) /\ ~HasErrorField(call.srv)) =>
        /\ call.transport.kind = "raise"
        /\ call.transport.exc = OllamaAPIError
        /\ call.transport.status = call.srv.status
        /\ call.transport.msg = JStr("API error: " \o ToString(call.srv.status))
        /\ Contains(call.transport.msg.s, ToString(call.srv.status))
        /\ call.op # "health_check" => call.res = call.transport

\* list_models answered 500 with a plain-text body has raised.
C3_Witness ==
    /\ UnaryAnswered
    /\ call.op = "list_models"
    /\ call.srv.status = 500
    /\ call.srv.body = TxtPlain
    /\ call.res.kind = "raise"

C5_HealthyOnEvery2xx ==
    (call.op = "health_check" /\ call.srv.net = "ok" /\ IsSuccess(call.srv.status)) =>
        call.res = Return(JBool(TRUE))

\* The three error kinds of the taxonomy.
TaxonomyErrors == {OllamaConnectionError, OllamaAPIError, OllamaClientError}

\* The request of the latest unary call failed: the send failed, or the
\* answer has a non-2xx status.
RequestFailed ==
    /\ call.srv.net # "none"
    /\ call.srv.net = "ok" => ~IsSuccess(call.srv.status)

\* C6: every operation other than health_check, in unary mode and at every
\* step of iterating its generator, produces a value or raises one of
\* OllamaConnectionError, OllamaAPIError, OllamaClientError: no other
\* exception class reaches the caller, and a unary call whose request failed
\* raises rather than returning.
C6_OnlyTaxonomyErrorsEscape ==
    call.op \notin {"none", "health_check"} =>
        /\ call.res.kind = "raise" => call.res.exc \in TaxonomyErrors
        /\ (~call.stream /\ RequestFailed) => call.res.kind = "raise"

\* The send of the latest unary call failed at the transport layer: network
\* unreachable, DNS failure, connection refused or timeout.
TransportFailed ==
    /\ call.op # "none"
    /\ ~call.stream
    /\ call.srv.net \in {"unreachable", "dns", "refused", "timeout"}

\* C7: when the send of a unary operation fails at the transport layer
\* (network unreachable, DNS failure, connection refused, timeout), the
\* transport raises an OllamaConnectionError (not an OllamaAPIError, not a
\* plain OllamaClientError) whose message contains scheme://hostname:port
\* of the client's profile (https://example.com:443 for the https profile
\* of example.com on 443), and every operation that propagates errors
\* raises exactly that error.
C7_TransportFailureNamesBaseUrl ==
    TransportFailed =>
        /\ call.transport.kind = "raise"
        /\ call.transport.exc = OllamaConnectionError
        /\ Contains(call.transport.msg.s,
                    client.host_config.protocol \o "://" \o client.host_config.hostname
                        \o ":" \o ToString(client.host_config.port))
        /\ (client.host_config.protocol = "https"
                /\ client.host_config.hostname = "example.com"
                /\ client.host_config.port = 443) =>
              Contains(call.transport.msg.s, "https://example.com:443")
        /\ call.op # "health_check" => call.res = call.transport

\* list_models on the https://example.com:443 client, connection refused,
\* has raised.
C7_Witness ==
    /\ TransportFailed
    /\ call.op = "list_models"
    /\ call.srv.net = "refused"
    /\ client.host_config.hostname = "example.com"
    /\ call.res.kind = "raise"

\* C8: delete_model returns without raising for every 2xx answer to
\* DELETE /api/delete, whatever the body is (an empty body included); it
\* raises only when the request failed.
C8_DeleteSucceedsOnEvery2xx ==
    (call.op = "delete_model" /\ call.srv.net # "none") =>
        (call.res.kind = "raise" <=> RequestFailed)

\* The response class a unary operation decodes its answer into.
ResponseClass(op) ==
    CASE op = "list_models" -> "ListModelsResponse"
      [] op = "show_model" -> "ShowResponse"
      [] op = "generate" -> "GenerateResponse"
      [] op = "chat" -> "ChatResponse"
      [] op = "embeddings" -> "EmbeddingsResponse"

\* The wording by which the code's messages refer to an operation.
OperationLabel(op) ==
    CASE op = "list_models" -> "models list"
      [] op = "show_model" -> "model details"
      [] op = "generate" -> "generate"
      [] op = "chat" -> "chat"
      [] op = "embeddings" -> "embeddings"

DecodingOps == {"list_models", "show_model", "generate", "chat", "embeddings"}

\* The latest unary call got a 2xx answer whose body is not JSON, or does
\* not build the operation's response class.
UndecodableAnswer ==
    /\ UnaryAnswered
    /\ call.op \in DecodingOps
    /\ IsSuccess(call.srv.status)
    /\ \/ ~JsonLoads(call.srv.body).ok
       \/ Construct(ResponseClass(call.op), JsonLoads(call.srv.body).val).kind = "raise"

\* The text of what made the body undecodable.
DecodeCause ==
    IF ~JsonLoads(call.srv.body).ok
    THEN JSONDecodeErrorText
    ELSE Construct(ResponseClass(call.op), JsonLoads(call.srv.body).val).msg.s

\* C9: a unary decoding operation whose 2xx answer cannot be decoded (not
\* JSON, a required field missing, a wrong type) raises an
\* OllamaClientError that is neither an OllamaConnectionError nor an
\* OllamaAPIError, whose message names the operation and carries the text
\* of the cause.
C9_DecodeFailureIsClientError ==
    UndecodableAnswer =>
        /\ call.res.kind = "raise"
        /\ call.res.exc = OllamaClientError
        /\ \/ Contains(call.res.msg.s, call.op)
           \/ Contains(call.res.msg.s, OperationLabel(call.op))
        /\ Contains(call.res.msg.s, DecodeCause)

RECURSIVE DecodedChunks(_, _)

\* The chunks of class cls that the JSON lines of ls decode into, in order.
DecodedChunks(cls, ls) ==
    IF ls = <<>>
    THEN <<>>
    ELSE (IF JsonLoads(Head(ls)).ok /\ Construct(cls, JsonLoads(Head(ls)).val).kind = "return"
          THEN <<Construct(cls, JsonLoads(Head(ls)).val).val>>
          ELSE <<>>)
         \o DecodedChunks(cls, Tail(ls))

\* C10: in a streaming operation a line that parses as JSON but does not
\* decode into the operation's chunk class is dropped: the generator has
\* yielded exactly the chunks of the decodable lines read, an exception
\* arises only from what cut the body, and every yielded chunk holds all
\* required fields of its class.
C10_UndecodableLinesAreDropped ==
    StreamOpened =>
        /\ gen.out = DecodedChunks(ChunkClass(gen.op), Delivered)
        /\ gen.fin.kind = "raise" => gen.pos = Len(gen.lines) /\ gen.cut # "none"
        /\ \A i \in 1..Len(gen.out) :
              \A n \in RequiredNames(ChunkClass(gen.op)) :
                  n \in DOMAIN gen.out[i].f /\ gen.out[i].f[n].j # "null"

\* The stream of the latest streaming call failed while it was opened: the
\* connection failed, the request timed out, or the answer has a non-2xx
\* status.
StreamOpenFailed ==
    /\ call.stream
    /\ \/ call.srv.net \in ConnectFailures \cup TimeoutFailures
       \/ call.srv.net = "ok" /\ ~IsSuccess(call.srv.status)

\* C11: a streaming operation whose stream fails while it is opened
\* (connection refused, timeout, non-2xx status with any body) raises the
\* error the unary transport raises for the same failure: the same class,
\* the same status code and the same message (the body's "error" entry when
\* there is one, else the fallback).
C11_StreamOpenFailsLikeUnary ==
    StreamOpenFailed =>
        /\ call.transport = MakeRequest(client, call.srv)
        /\ gen.fin = MakeRequest(client, call.srv)

\* A yielded chunk is terminal: its done flag is true.
IsTerminal(chunk) == "done" \in DOMAIN chunk.f /\ chunk.f["done"] = JBool(TRUE)

\* C12: whatever lines the server sends, what a streaming generator has
\* yielded is zero or more non-terminal chunks followed by at most one
\* terminal chunk: a chunk with done == true is the last one yielded (so no
\* chunk follows it and no second terminal chunk exists).
C12_TerminalChunkIsLast ==
    \A i \in 1..Len(gen.out) : IsTerminal(gen.out[i]) => i = Len(gen.out)

\* The generator has yielded a terminal chunk.
TerminalYielded == \E i \in 1..Len(gen.out) : IsTerminal(gen.out[i])

\* C13: a streaming sequence that ends without having yielded a terminal
\* chunk does not end like a complete one: the plain end of the iteration
\* (StopIteration, which the consumer's for loop takes as completion) occurs
\* only after a terminal chunk was yielded.
C13_PlainEndOnlyAfterTerminalChunk ==
    (StreamOpened /\ gen.fin.kind = "stop") => TerminalYielded

\* The body of the current stream was cut by a transport failure and the
\* generator has finished.
StreamCut == StreamOpened /\ gen.st = "done" /\ gen.cut # "none"

\* C14 (as stated): a transport failure after the stream has started
\* delivering lines (read timeout, connection cut) ends the sequence
\* silently: the generator that read up to the failure ends with a plain
\* stop, as on a normal end of stream, and raises nothing.
C14_CutStreamEndsSilently ==
    (StreamCut /\ Len(gen.lines) > 0 /\ gen.pos = Len(gen.lines)) => gen.fin = Stop

\* C14 (amended): a transport failure after the stream was opened is raised
\* to the consumer, never turned into a plain end. The generator of a cut
\* stream ends with an exception; unless a chunk that is no mapping ended it
\* before (TypeError), it has read every delivered line, and it raises
\* OllamaConnectionError naming the base URL for a read timeout and the
\* httpx.ReadError itself for a reset connection.
C14_CutStreamRaises ==
    StreamCut =>
        /\ gen.fin.kind = "raise"
        /\ gen.fin.exc # "TypeError" =>
              /\ gen.pos = Len(gen.lines)
              /\ gen.cut = "read_timeout" =>
                    /\ gen.fin.exc = OllamaConnectionError
                    /\ Contains(gen.fin.msg.s, client.base_url)
              /\ gen.cut = "read_error" => gen.fin.exc = "httpx.ReadError"

\* A generate stream that delivered a chunk, yielded it, and was then cut
\* by a read timeout.
C14_Witness ==
    /\ StreamCut
    /\ gen.op = "generate"
    /\ gen.cut = "read_timeout"
    /\ Len(gen.out) > 0
    /\ gen.pos = Len(gen.lines)
    /\ gen.fin.exc = OllamaConnectionError

\* Reading attribute name of a pydantic instance (chunk.status, chunk.done
\* in the pull and push commands): the field's value, or AttributeError
\* when the class declares no such field.
GetAttr(v, name) ==
    IF name \in DOMAIN v.f
    THEN Return(v.f[name])
    ELSE Raise("AttributeError",
               JStr("'" \o v.cls \o "' object has no attribute '" \o name \o "'"), 0)

\* C15: every chunk yielded by a streaming operation (generate, chat,
\* pull_model, push_model) carries a boolean done flag: reading chunk.done
\* succeeds and gives a boolean, on every PullResponse and PushResponse
\* chunk too.
C15_EveryChunkHasDoneFlag ==
    \A i \in 1..Len(gen.out) :
        /\ GetAttr(gen.out[i], "done").kind = "return"
        /\ GetAttr(gen.out[i], "done").val.j = "bool"

\* The latest call built a JSON payload for its request.
PayloadBuilt == call.op # "none" /\ call.req.j = "obj"

\* C16: the JSON payload an operation sends holds no null: an optional
\* request field the caller leaves absent (system, template, context,
\* options, format, keep_alive) is omitted from the payload, never sent
\* with a null value.
C16_AbsentFieldsAreOmitted ==
    PayloadBuilt => \A n \in DOMAIN call.req.f : call.req.f[n].j # "null"

\* The semantically required string fields of the request payloads.
RequiredStrings == {"model", "name", "prompt"}

\* The request of the latest call went to the transport.
RequestSent == PayloadBuilt /\ call.srv.net # "none"

\* C17: an operation called with an empty model name or an empty prompt
\* fails when it builds its request, before any HTTP request is sent: no
\* payload that went to the transport holds an empty model, name or prompt.
C17_EmptyRequiredStringsAreRejected ==
    RequestSent =>
        \A n \in RequiredStrings \cap DOMAIN call.req.f : call.req.f[n] # JStr("")

\* ModelInfo.get_name: `self.name or self.model`.
get_name(m) == IF m.f["name"] # JStr("") THEN m.f["name"] ELSE m.f["model"]

\* The /api/tags payloads whose entries carry their name under "name",
\* under "model", or under both.
TagsBodies == {TxtModels, TxtModelsModelOnly, TxtModelsNameEmpty, TxtModelsBoth}

\* The name a raw /api/tags entry carries: the value of "name" when it is
\* there and non-empty, else the value of "model".
WireName(entry) ==
    IF "name" \in DOMAIN entry.f /\ entry.f["name"] # JStr("")
    THEN entry.f["name"]
    ELSE entry.f["model"]

\* C18: list_models decodes every /api/tags entry that carries its name
\* under "name" or under "model" (the other absent or empty), and get_name
\* of the decoded entry is the non-empty value; when both are non-empty it
\* is the value of "name".
C18_NameResolvedFromEitherField ==
    (UnaryAnswered /\ call.op = "list_models" /\ IsSuccess(call.srv.status)
        /\ call.srv.body \in TagsBodies) =>
        /\ call.res.kind = "return"
        /\ Len(call.res.val.items) = Len(JsonLoads(call.srv.body).val.f["models"].items)
        /\ \A i \in 1..Len(call.res.val.items) :
              get_name(call.res.val.items[i])
                  = WireName(JsonLoads(call.srv.body).val.f["models"].items[i])

RECURSIVE ResponseText(_)

\* The text the run command accumulates from the chunks of generate:
\* response_text += chunk.response, chunk after chunk.
ResponseText(chunks) ==
    IF chunks = <<>>
    THEN ""
    ELSE GetAttr(Head(chunks), "response").val.s \o ResponseText(Tail(chunks))

\* The stream lines that are JSON objects carrying only response and done.
ResponseOnlyLines == {LinePartialHel, LinePartial, LinePartialDone}

RECURSIVE WireResponseText(_)

\* The concatenation of the response values of JSON lines that carry one.
WireResponseText(ls) ==
    IF ls = <<>>
    THEN ""
    ELSE JsonLoads(Head(ls)).val.f["response"].s \o WireResponseText(Tail(ls))

\* C19: generate with stream=true, on a stream whose lines are JSON objects
\* carrying only response and done, yields one chunk per line in order:
\* when the stream has ended the generator has yielded as many chunks as
\* there were lines and the concatenation of their response fields is the
\* concatenation of the lines' response values ("Hello" for the lines
\* "Hel", "lo" and the terminal "").
C19_ResponseOnlyLinesYieldOneChunkEach ==
    (StreamOpened /\ gen.op = "generate" /\ gen.fin.kind = "stop"
        /\ \A i \in 1..Len(gen.lines) : gen.lines[i] \in ResponseOnlyLines) =>
        /\ Len(gen.out) = Len(gen.lines)
        /\ ResponseText(gen.out) = WireResponseText(gen.lines)
        /\ gen.lines = <<LinePartialHel, LinePartial, LinePartialDone>> =>
              ResponseText(gen.out) = "Hello"

RECURSIVE MessageText(_)

\* The text the chat command accumulates from the chunks of chat:
\* response_text += chunk.message.content, chunk after chunk.
MessageText(chunks) ==
    IF chunks = <<>>
    THEN ""
    ELSE GetAttr(GetAttr(Head(chunks), "message").val, "content").val.s
             \o MessageText(Tail(chunks))

\* The text a consumer assembles from the chunks of a streaming operation.
StreamedText(op, chunks) ==
    IF op = "generate" THEN ResponseText(chunks) ELSE MessageText(chunks)

\* The text fragment a JSON value carries for operation op: its response
\* (generate) or its message's content (chat). HasFragment says there is one.
HasFragment(op, v) ==
    /\ v.j = "obj"
    /\ IF op = "generate"
       THEN "response" \in DOMAIN v.f /\ v.f["response"].j = "str"
       ELSE /\ "message" \in DOMAIN v.f
            /\ v.f["message"].j = "obj"
            /\ "content" \in DOMAIN v.f["message"].f
            /\ v.f["message"].f["content"].j = "str"

Fragment(op, v) ==
    IF op = "generate" THEN v.f["response"].s ELSE v.f["message"].f["content"].s

RECURSIVE WireText(_, _)

\* The text the server sent over a stream: its lines' fragments in order.
WireText(op, ls) ==
    IF ls = <<>>
    THEN ""
    ELSE Fragment(op, JsonLoads(Head(ls)).val) \o WireText(op, Tail(ls))

\* The current stream was consumed to its end and every line the server
\* sent carried a fragment of the text.
TextStreamed ==
    /\ StreamOpened
    /\ gen.op \in {"generate", "chat"}
    /\ gen.fin.kind = "stop"
    /\ \A i \in 1..Len(gen.lines) :
          JsonLoads(gen.lines[i]).ok /\ HasFragment(gen.op, JsonLoads(gen.lines[i]).val)

\* The unary call with the parameters of the current streaming call, to a
\* server that answers with the same text in one piece.
UnaryTwin ==
    IF gen.op = "generate"
    THEN generate(client, call.req.f["model"], call.req.f["prompt"], FALSE,
                  JNull, JNull, JNull, JNull,
                  UnaryResponse(200, GenerateBody(WireText("generate", gen.lines))))
    ELSE chat(client, call.req.f["model"], call.req.f["messages"], FALSE, JNull,
              UnaryResponse(200, ChatBody(WireText("chat", gen.lines))))

\* C20: for generate and chat, against a server that produces the same
\* text in both modes, the concatenation of the fragments of the chunks of
\* the whole streaming sequence is exactly the text the unary call with the
\* same parameters returns: no fragment the server sent is lost, duplicated
\* or reordered.
C20_StreamedTextEqualsUnaryText ==
    TextStreamed =>
        /\ UnaryTwin.res.kind = "return"
        /\ StreamedText(gen.op, gen.out) = StreamedText(gen.op, <<UnaryTwin.res.val>>)

\* The latest call is a chat call whose request payload was built.
ChatPayloadBuilt == call.op = "chat" /\ call.req.j = "obj"

\* C24: the messages in the payload of a chat call are exactly the caller's
\* messages: as many, in the same order, each with the caller's role and
\* content; nothing is reordered, merged, dropped or deduplicated.
C24_ChatSendsCallersMessages ==
    ChatPayloadBuilt =>
        LET sent == call.req.f["messages"].items
            given == call.messages.items
        IN  /\ Len(sent) = Len(given)
            /\ \A i \in 1..Len(sent) :
                  /\ sent[i].f["role"] = given[i].f["role"]
                  /\ sent[i].f["content"] = given[i].f["content"]

\* A chat request that went to the server with a system message followed by
\* two identical user messages.
C24_Witness ==
    /\ ChatPayloadBuilt
    /\ call.srv.net = "ok"
    /\ Len(call.messages.items) = 3
    /\ call.messages.items[2] = call.messages.items[3]
    /\ call.messages.items[1] # call.messages.items[2]
    /\ Len(call.req.f["messages"].items) = 3

\* The latest call returned a generator that has not been iterated yet.
NotIterated == call.stream /\ gen.st = "created"

C21_ConnectionClosedOnEveryExit ==
    /\ ~client.closed
    /\ [](client.exited # "no" => client.closed)
    /\ [](gen.resp = "open" => gen.st = "open" /\ ~client.closed)
    /\ []((call.stream /\ call.res.kind = "raise") => gen.resp # "open")
    /\ [][client' # client =>
             /\ client'.closed
             /\ client.closed => client.exited = "no"
             /\ call' = NoCall
             /\ gen' = NoGen]_vars

\* The with block was left by an httpx.ReadError, which only a streaming
\* step raises, and the client is closed.
C21_Witness ==
    /\ client.exited = "httpx.ReadError"
    /\ client.closed

\* A generator the consumer gave up before its end.
Cancelled == gen.st = "closed"

StoredHosts == ctx.obj["config"].hosts

\* C23: a profile never changes once it exists and a client stays bound to
\* its base URL, timeout and profile: no step changes the hostname, port,
\* protocol or verify flag of a profile stored in the loaded Config (nor
\* drops one), building a client with a port override included; no step
\* changes an existing client's base URL, timeout or profile; and a
\* client's base_url is always the base URL derived from its profile.
C23_ProfilesAndClientBindingNeverChange ==
    /\ [](client # NoClient => client.base_url = GetBaseUrl(client.host_config))
    /\ [][(Loaded /\ Loaded') =>
             \A a \in DOMAIN StoredHosts :
                 /\ a \in DOMAIN StoredHosts'
                 /\ StoredHosts'[a] = StoredHosts[a]]_vars
    /\ [][client # NoClient =>
             /\ client'.host_config = client.host_config
             /\ client'.base_url = client.base_url
             /\ client'.timeout = client.timeout]_vars

\* The Config load_config returned, before any command used it.
JustLoaded == Loaded /\ client = NoClient

\* The profile of the default host of the loaded Config.
DefaultProfile == get_host_config(ctx.obj["config"], JNull).hc

\* OLLAMA_HOST is set; OLLAMA_PORT is set to a number.
EnvHostGiven == Truthy(environ["OLLAMA_HOST"])

EnvPortGiven == Truthy(environ["OLLAMA_PORT"]) /\ IsInt(environ["OLLAMA_PORT"].s)

\* What OLLAMA_HOST says: "hostname" or "hostname:port".
EnvHost == ParseHostPort(environ["OLLAMA_HOST"].s)

\* The attribute of profile hc that key k of a host entry of a file sets.
ProfileValue(hc, k) ==
    CASE k = "hostname" -> JStr(hc.hostname)
      [] k = "port" -> JNum(hc.port)
      [] k = "protocol" -> JStr(hc.protocol)
      [] k = "verify_ssl" -> JBool(hc.verify_ssl)

\* Every key that both the local and the global file give has the local
\* file's value in the loaded Config (default_host unless the environment
\* names the host; the keys of a host both files describe).
LocalOverGlobal ==
    LET l == load_config_file(files.local)
        g == load_config_file(files.global)
        cfg == ctx.obj["config"]
    IN  /\ ("default_host" \in DOMAIN l \cap DOMAIN g /\ ~EnvHostGiven) =>
               cfg.default_host = l["default_host"].s
        /\ "hosts" \in DOMAIN l \cap DOMAIN g =>
               \A a \in DOMAIN l["hosts"].f \cap DOMAIN g["hosts"].f :
                   \A k \in DOMAIN l["hosts"].f[a].f \cap DOMAIN g["hosts"].f[a].f :
                       ProfileValue(cfg.hosts[a], k) = l["hosts"].f[a].f[k]

\* C25: load_config resolves by the priority environment > specified file >
\* local file > global file > defaults. In the Config it returns: the
\* hostname given by OLLAMA_HOST is the hostname of the default host; a
\* port given by OLLAMA_PORT, else one given in OLLAMA_HOST, is the port of
\* the default host, also when OLLAMA_PORT is the only variable set; a key
\* given by both standard files has the local file's value; and with a
\* specified file the Config is the one resolved without the standard files.
C25_EnvironmentThenFilesThenDefaults ==
    JustLoaded =>
        /\ EnvHostGiven => DefaultProfile.hostname = EnvHost["hostname"].s
        /\ EnvPortGiven => DefaultProfile.port = IntOf(environ["OLLAMA_PORT"].s)
        /\ (EnvHostGiven /\ ~EnvPortGiven /\ "port" \in DOMAIN EnvHost) =>
               DefaultProfile.port = EnvHost["port"].n
        /\ files.specified = NoFile => LocalOverGlobal
        /\ files.specified # NoFile =>
               Return(ctx.obj["config"]) = load_config("specified", [NoFiles EXCEPT !.specified = files.specified], environ)

\* C28: in every Config load_config returned, default_host is a key of
\* hosts, so get_host_config() without an alias returns a stored profile
\* and does not take the default alias for a hostname; get_host_config of
\* an alias that is a key of hosts returns the stored profile; an alias
\* that is no key is parsed as hostname or hostname:port into a new profile
\* with the default protocol.
C28_DefaultHostIsAKeyOfHosts ==
    Loaded =>
        LET config == ctx.obj["config"]
        IN  /\ config.default_host \in DOMAIN config.hosts
            /\ get_host_config(config, JNull).stored
            /\ \A a \in DOMAIN config.hosts :
                   /\ get_host_config(config, JStr(a)).stored
                   /\ get_host_config(config, JStr(a)).hc = config.hosts[a]
            /\ \A h \in HostArgs \ {JNull} :
                   h.s \notin DOMAIN config.hosts =>
                       /\ ~get_host_config(config, h).stored
                       /\ get_host_config(config, h).hc.protocol = "http"
                       /\ IF Contains(h.s, ":")
                          THEN GetBaseUrl(get_host_config(config, h).hc) = "http://" \o h.s
                          ELSE /\ get_host_config(config, h).hc.hostname = h.s
                               /\ get_host_config(config, h).hc.port = DefaultPort

----------------------------------------------------------------------------
(* The interactive chat command: a loop of prompts inside the with block   *)
(* of its client, each turn one streaming chat call.                       *)

\* --system: absent, or a text.
SystemArgs == {JNull, JStr("be brief")}

\* What the user types at the prompt (click.prompt returns no empty text);
\* "exit" and "quit" leave the loop.
UserInputs == {"hi"}

ChatModel == JStr("llama2")

Message(role, content) == JObj([role |-> JStr(role), content |-> JStr(content)])

\* The lines the server streams to the chat command: two chunks with
\* different content, the second the final one, and a line that is no JSON.
ChatLines == {TxtChat, ChatBody(" there"), LineBad}

\* What the first iteration step of a turn meets.
ChatOutcomes(c) ==
    {o \in StreamOutcomes(c, "chat") : o.lines = <<>>}
        \cup {StreamResponse(200, "", ls, cut) :
                 ls \in SeqsUpTo(ChatLines, MaxChatLines), cut \in Cuts}

\* messages = []; if system: messages.append({"role": "system", ...}).
InitChat ==
    /\ client = NewClient(CHOOSE hc \in Profiles : hc.hostname = "localhost", DefaultTimeout)
    /\ call = NoCall
    /\ gen = NoGen
    /\ \E system \in SystemArgs :
          chat_messages = IF Truthy(system) THEN <<Message("system", system.s)>> ELSE <<>>
    /\ response_text = ""
    /\ seen = 0
    /\ environ = NoEnviron
    /\ files = NoFiles
    /\ ctx = NewCtx

\* The loop is at click.prompt: no call is in progress and the with block
\* has not been left.
AtPrompt == Idle /\ client.exited = "no"

IsUserMessage(m) == m.f["role"] = JStr("user")

\* The user enters a message: it is appended to the history, response_text
\* is reset, and client.chat(model, messages, stream=True) is called, which
\* builds its request from the list as it is now.
ChatPrompt ==
    /\ AtPrompt
    /\ Len(SelectSeq(chat_messages, IsUserMessage)) < MaxTurns
    /\ \E user_input \in UserInputs :
          /\ chat_messages' = Append(chat_messages, Message("user", user_input))
          /\ call' = chat(client, ChatModel, JList(chat_messages'), TRUE, JNull, NoOutcome)
                         @@ [messages |-> JList(chat_messages')]
          /\ gen' = GenOf(call')
    /\ response_text' = ""
    /\ seen' = 0
    /\ UNCHANGED <<client, cfgVars>>

\* The for loop asks the generator for its next chunk, once the body has
\* handled the chunks it got.
ChatIterate ==
    /\ call.op = "chat"
    /\ seen = Len(gen.out)
    /\ IterFirstAmong(ChatOutcomes(client)) \/ IterNext

\* The loop body that drops the text received so far.
ChatEchoKeepsLastChunk ==
    /\ call.op = "chat"
    /\ call.res.kind = "yield"
    /\ seen < Len(gen.out)
    /\ response_text' = MessageText(<<gen.out[seen + 1]>>)
    /\ seen' = seen + 1
    /\ UNCHANGED <<client, call, gen, cfgVars, chat_messages>>

\* The loop body on the chunk just yielded: `if chunk.message:
\* response_text += chunk.message.content`.
ChatEcho ==
    /\ call.op = "chat"
    /\ call.res.kind = "yield"
    /\ seen < Len(gen.out)
    /\ LET chunk == gen.out[seen + 1]
       IN  response_text' =
               IF GetAttr(chunk, "message").val # JNull
               THEN response_text \o GetAttr(GetAttr(chunk, "message").val, "content").val.s
               ELSE response_text
    /\ seen' = seen + 1
    /\ UNCHANGED <<client, call, gen, cfgVars, chat_messages>>

\* The stream ended (StopIteration): the answer is appended to the history
\* and the loop returns to the prompt.
ChatAppend ==
    /\ call.op = "chat"
    /\ call.res.kind = "stop"
    /\ chat_messages' = Append(chat_messages, Message("assistant", response_text))
    /\ call' = NoCall
    /\ gen' = NoGen
    /\ UNCHANGED <<client, cfgVars, response_text, seen>>

\* Cancel is Ctrl-C during a turn (KeyboardInterrupt unwinds the for loop,
\* which finalises the generator); ExitScope is the end of the with block:
\* after "exit" or "quit" at the prompt, after Ctrl-C, or by the exception
\* an iteration step raised.
NextChat ==
    \/ ChatPrompt
    \/ ChatIterate
    \/ ChatEcho
    \/ ChatAppend
    \/ Cancel
    \/ ExitScope

SpecChat == InitChat /\ [][NextChat]_vars

Role(m) == m.f["role"].s

\* An optional system message first, then user and assistant messages in
\* turn, starting with a user message and ending with an assistant one.
Alternating(history) ==
    LET turns == IF history # <<>> /\ Role(history[1]) = "system"
                 THEN Tail(history) ELSE history
    IN  /\ Len(turns) % 2 = 0
        /\ \A i \in 1..Len(turns) :
               Role(turns[i]) = IF i % 2 = 1 THEN "user" ELSE "assistant"

\* C27: in the interactive chat command, at every prompt the history is an
\* optional single system message followed by user and assistant messages
\* strictly in turn, ending with an assistant message (or it is empty); the
\* request a turn sends carries the whole history, message by message, and
\* the new user message last; and the turn that returns to the prompt has
\* appended exactly one assistant message whose content is the in-order
\* concatenation of the content of all the chunks yielded in that turn.
C27_ChatHistoryAlternates ==
    /\ [](AtPrompt => Alternating(chat_messages))
    /\ [][(AtPrompt /\ call'.op = "chat") =>
             /\ call'.req.j = "obj"
             /\ LET sent == call'.req.f["messages"].items
                IN  /\ Len(sent) = Len(chat_messages) + 1
                    /\ \A i \in 1..Len(chat_messages) :
                          /\ sent[i].f["role"] = chat_messages[i].f["role"]
                          /\ sent[i].f["content"] = chat_messages[i].f["content"]
                    /\ sent[Len(sent)].f["role"] = JStr("user")
                    /\ sent[Len(sent)].f["content"].s \in UserInputs
                    /\ chat_messages' = Append(chat_messages, chat_messages'[Len(chat_messages')])]_vars
    /\ [][(call.op = "chat" /\ AtPrompt') =>
             chat_messages' =
                 Append(chat_messages, Message("assistant", MessageText(gen.out)))]_vars

\* Back at the prompt after two turns of a session with a system message,
\* the first answer assembled from two chunks.
C27_Witness ==
    /\ AtPrompt
    /\ Len(chat_messages) = 5
    /\ chat_messages[3] = Message("assistant", "Hi there")
    /\ Role(chat_messages[5]) = "assistant"

====
